---- MODULE Spec2Model ----
(***************************************************************************)
(* The scan orchestration core of bedrock-web-optical-scanner              *)
(* (lib/opticalScanner.js): the plugin registry, the single-shot scan with *)
(* its three resolution modes, and the composition of the caller's abort   *)
(* signal with the deadline.                                               *)
(*                                                                         *)
(* One behaviour is one OpticalScanner instance serving one scan() call.   *)
(* Every step is one turn of the JavaScript event loop that the code can   *)
(* observe: the synchronous part of scan(), the settlement of one plugin   *)
(* promise together with the reactions chained on it, the caller's         *)
(* abort(), the deadline timer, and the continuation of the                *)
(* `await Promise.allSettled(...)` in _waitForAll.                         *)
(***************************************************************************)
EXTENDS Integers, Sequences, FiniteSets, TLC

VARIABLES
    plugins,      \* this.plugins: the Map format -> plugin, in insertion order
    call,         \* the promise returned by scan() and the locals of its waiter
    twin,         \* the same call with 'all' and 'exhaustive' exchanged
    inv,          \* the plugin invocations the call has started, in request order
    userSig,      \* options.signal: "none" | "live" | "aborted"
    timer,        \* the timer of AbortSignal.timeout(): "none" | "armed" | "fired"
    eff,          \* the signal scan() works with (const signal, line 64)
    settleOrder,  \* the indices of inv in the order in which they settled
    registered,   \* the plugins registered with success so far, in call order
    req,          \* the last call made on the public interface
    cont,         \* the promise and the locals of scanContinuous()
    plug,         \* the promise of one direct call of a built-in plugin's scan()
    cam,          \* the fields of one CameraScanner and the scans it has delegated
    other         \* a second scanContinuous() call on the same instance: its locals

vars == <<plugins, call, twin, inv, userSig, timer, eff, settleOrder,
          registered, req, cont, plug, cam, other>>

\* The most scans one CameraScanner is seen delegating.
MaxDelegated == 2

\* The most plugins registered with success on one instance.
MaxRegistrations == 4

\* The most single-shot scans one scanContinuous() call starts.
MaxAttempts == 2

\* The longest requested format list.
MaxFormats == 2

----------------------------------------------------------------------------
(* Values *)

\* A call on the public interface: the operation, its argument, the state
\* of the caller's signal when the call was made and whether the call threw
\* synchronously.
Request(op, arg, signal, threw) ==
    [op |-> op, arg |-> arg, signal |-> signal, threw |-> threw]

NoRequest == Request("none", <<>>, "none", FALSE)

FormatIds == {"qr_code", "pdf417", "mrz"}

ModeValues == {"first", "all", "exhaustive", "bogus"}

UserSignals == {"none", "live", "aborted"}

TimeoutValues == {-1, 0, 50}

FormatLists == UNION {[1..n -> FormatIds] : n \in 0..MaxFormats}

\* Every error is a record of the same shape.  `code` is the error's own
\* `code` property: the legacy numeric code of a DOMException ("20", "23"),
\* written as a string, or "none" when the property is absent.
Err(name, message, code, detail) ==
    [name |-> name, message |-> message, code |-> code, detail |-> detail]

NoError == Err("none", "none", "none", <<>>)

\* controller.abort() without an argument: DOMException AbortError.
AbortReason == Err("AbortError", "signal is aborted without reason", "20", <<>>)

\* The reason AbortSignal.timeout() aborts with: DOMException TimeoutError.
TimeoutReason == Err("TimeoutError", "signal timed out", "23", <<>>)

UnsupportedFormatError(missing) ==
    Err("Error", "Unsupported formats", "none", missing)

UnknownModeError(mode) == Err("Error", "Unknown mode", "none", <<mode>>)

NoResultsError == Err("Error", "No results found from any plugin", "none", <<>>)

PluginError(format) == Err("Error", "plugin failed", "none", <<format>>)

----------------------------------------------------------------------------
(* The registry: a JavaScript Map as a sequence of plugins with distinct   *)
(* formats, in insertion order.                                            *)

Plugin(format, scan) == [format |-> format, scan |-> scan]

MapHas(m, k) == \E i \in 1..Len(m) : m[i].format = k

MapGet(m, k) == m[CHOOSE i \in 1..Len(m) : m[i].format = k]

\* Variant: a format that is already registered keeps its plugin.
MapSet_KeepsFirst(m, p) ==
    IF MapHas(m, p.format) THEN m ELSE Append(m, p)

MapSet(m, p) ==
    IF MapHas(m, p.format)
    THEN [i \in 1..Len(m) |-> IF m[i].format = p.format THEN p ELSE m[i]]
    ELSE Append(m, p)

\* Variant: only the format is required.
RegisterPlugin_FormatOnly(m, plugin) ==
    IF plugin.format = ""
    THEN [threw |-> TRUE, plugins |-> m]
    ELSE [threw |-> FALSE, plugins |-> MapSet(m, plugin)]

\* registerPlugin: a falsy format is "", a missing scan is "none".
\* Variant: a registration that fails empties the registry.
RegisterPlugin_ClearsOnInvalid(m, plugin) ==
    IF plugin.format = "" \/ plugin.scan = "none"
    THEN [threw |-> TRUE, plugins |-> <<>>]
    ELSE [threw |-> FALSE, plugins |-> MapSet(m, plugin)]

RegisterPlugin(m, plugin) ==
    IF plugin.format = "" \/ plugin.scan = "none"
    THEN [threw |-> TRUE, plugins |-> m]
    ELSE [threw |-> FALSE, plugins |-> MapSet(m, plugin)]

RECURSIVE Construct(_, _)
Construct(m, list) ==
    IF list = <<>> THEN m
    ELSE Construct(RegisterPlugin(m, Head(list)).plugins, Tail(list))

\* Array.from(this.plugins.keys()): the keys in insertion order.
GetSupportedFormats(m) == [i \in 1..Len(m) |-> m[i].format]

\* The plugin lists an instance is constructed with.
PluginLists ==
    { <<>>,
      <<Plugin("qr_code", "qrScan")>>,
      <<Plugin("qr_code", "qrScan"), Plugin("pdf417", "pdfScan")>> }

\* The plugins registerPlugin() is called with: well-formed ones, and ones
\* without a format, without a scan operation, or without either.
RegisterArgs ==
    { Plugin(f, sc) : f \in {"qr_code", "pdf417", "test_format"},
                      sc \in {"qrScan", "pdfScan", "testScan"} }
    \cup { Plugin("", "testScan"), Plugin("test", "none"), Plugin("", "none") }

----------------------------------------------------------------------------
(* Signals *)

Signal(kind, aborted, reason) ==
    [kind |-> kind, aborted |-> aborted, reason |-> reason]

\* The caller's signal as scan() receives it.
UserSignal(us) ==
    Signal("user", us = "aborted", IF us = "aborted" THEN AbortReason ELSE NoError)

\* Variant: a combination that only listens for later abort events.
AbortSignalAny_ListensOnly(us) == Signal("any", FALSE, NoError)

\* AbortSignal.any(signals): aborted at once with the reason of the first
\* source that is already aborted (only the caller's can be).
AbortSignalAny(us) ==
    Signal("any", us = "aborted", IF us = "aborted" THEN AbortReason ELSE NoError)

\* Variant: the deadline is left out of the combination.
CombineSignals_DropsTimeout(us, timeoutMs) ==
    IF us = "none" THEN Signal("none", FALSE, NoError) ELSE UserSignal(us)

\* _combineSignals(userSignal, timeoutMs) || userSignal.  Kind "none" is the
\* undefined signal.
CombineSignals(us, timeoutMs) ==
    IF us = "none" /\ timeoutMs <= 0
    THEN Signal("none", FALSE, NoError)
    ELSE LET signals == (IF us # "none" THEN <<"user">> ELSE <<>>) \o
                        (IF timeoutMs > 0 THEN <<"timeout">> ELSE <<>>)
         IN  IF Len(signals) = 1
             THEN IF signals[1] = "user"
                  THEN UserSignal(us)
                  ELSE Signal("timeout", FALSE, NoError)
             ELSE AbortSignalAny(us)

\* Variant: every abort replaces the state and the reason of the signal.
SignalAbort_Overwrites(s, reason) ==
    [s EXCEPT !.aborted = TRUE, !.reason = reason]

\* Signalling abort on a signal: a no-op once it is aborted.
SignalAbort(s, reason) ==
    IF s.aborted THEN s ELSE [s EXCEPT !.aborted = TRUE, !.reason = reason]

----------------------------------------------------------------------------
(* The promise of scan() *)

IdleCall ==
    [status |-> "idle", results |-> <<>>, error |-> NoError, mode |-> "first",
     formats |-> <<>>, resolved |-> FALSE, completed |-> 0, total |-> 0,
     listening |-> FALSE]

\* A promise settles once: later resolve/reject calls are ignored.
Resolve(c, results) ==
    IF c.status = "pending"
    THEN [c EXCEPT !.status = "resolved", !.results = results]
    ELSE c

Reject(c, error) ==
    IF c.status = "pending"
    THEN [c EXCEPT !.status = "rejected", !.error = error]
    ELSE c

\* The state a plugin invocation's promise is in.
Settled == {"data", "empty", "undef", "error", "aborted"}

\* The promise pushed on `promises` for one plugin (lines 96-105).
\* `success` is `result && result.length > 0`: falsy for [] and undefined.
\* A plugin that rejects does so with its own error ("error") or, having
\* seen the signal aborted at one of its checkpoints, with the signal's
\* reason ("aborted").
WrapOutcome(i, signal) ==
    [format |-> i.format,
     success |-> i.st = "data",
     data |-> IF i.st \in {"data", "empty", "undef"} THEN i.st ELSE "none",
     error |-> IF i.st = "error" THEN PluginError(i.format).message
               ELSE IF i.st = "aborted" THEN signal.reason.message
               ELSE "none"]

----------------------------------------------------------------------------
(* _waitForFirst *)

\* Variant: no `resolved` flag, and the promise is settled over again.
CheckCompletion_Unguarded(c) ==
    LET c1 == [c EXCEPT !.completed = @ + 1]
    IN  IF c1.completed = c1.total
        THEN [c1 EXCEPT !.status = "rejected", !.error = NoResultsError]
        ELSE c1

\* checkCompletion (lines 595-599).
CheckCompletion(c) ==
    LET c1 == [c EXCEPT !.completed = @ + 1]
    IN  IF c1.completed = c1.total /\ ~c1.resolved
        THEN Reject(c1, NoResultsError)
        ELSE c1

\* Variant: the first settlement wins, whether it carries data or not.
FirstOnSettled_AnyOutcome(c, o) ==
    IF ~c.resolved
    THEN Resolve([c EXCEPT !.resolved = TRUE, !.listening = FALSE], <<o>>)
    ELSE c

\* Variant: every success is handed out, the last one stays.
FirstOnSettled_LastWins(c, o) ==
    IF o.success
    THEN [c EXCEPT !.resolved = TRUE, !.listening = FALSE,
                   !.status = "resolved", !.results = <<o>>]
    ELSE CheckCompletion(c)

\* The reaction on one element of `promises` (lines 615-625).
FirstOnSettled(c, o) ==
    IF o.success /\ ~c.resolved
    THEN Resolve([c EXCEPT !.resolved = TRUE, !.listening = FALSE], <<o>>)
    ELSE CheckCompletion(c)

\* abortHandler (lines 602-611); an aborted signal always has a reason here.
AbortHandler(c, signal) ==
    IF ~c.resolved
    THEN Reject([c EXCEPT !.resolved = TRUE], signal.reason)
    ELSE c

\* Entering _waitForFirst: the listener is added when there is a signal.
WaitForFirst(c, signal) ==
    [c EXCEPT !.listening = (signal.kind # "none")]

----------------------------------------------------------------------------
(* _waitForAll and _waitExhaustive *)

\* Variant: every fulfilled outcome is returned, successful or not.
Successful_Unfiltered(invs, signal) ==
    [k \in 1..Len(invs) |-> WrapOutcome(invs[k], signal)]

\* Variant: the outcomes are collected as the promises settle.
Successful_InSettleOrder(invs, signal) ==
    LET outs == [j \in 1..Len(settleOrder) |->
                    WrapOutcome(invs[settleOrder[j]], signal)]
    IN  SelectSeq(outs, LAMBDA o : o.success)

\* The outcomes Promise.allSettled delivers: those of `promises`, in the
\* order of `promises`, filtered on success (lines 653-655).
Successful(invs, signal) ==
    LET outs == [k \in 1..Len(invs) |-> WrapOutcome(invs[k], signal)]
    IN  SelectSeq(outs, LAMBDA o : o.success)

\* _waitForAll up to its await: the first throwIfAborted (line 647).
WaitForAll(c, signal) ==
    IF signal.aborted THEN Reject(c, signal.reason) ELSE c

\* Variant: Promise.all in place of Promise.allSettled, the plugin promises
\* being awaited unwrapped: the first failure rejects the call.
WaitForAllResume_PromiseAll(c, invs, signal) ==
    IF signal.aborted
    THEN Reject(c, signal.reason)
    ELSE IF \E k \in 1..Len(invs) : invs[k].st = "error"
    THEN Reject(c, PluginError(
             invs[CHOOSE k \in 1..Len(invs) : invs[k].st = "error"].format))
    ELSE Resolve(c, SelectSeq([k \in 1..Len(invs) |-> WrapOutcome(invs[k], signal)],
                              LAMBDA o : o.success))

\* Variant: the signal is not looked at again after the await.
WaitForAllResume_NoAbortCheck(c, invs, signal) ==
    Resolve(c, Successful(invs, signal))

\* _waitForAll after its await (lines 651-664).
WaitForAllResume(c, invs, signal) ==
    IF signal.aborted
    THEN Reject(c, signal.reason)
    ELSE Resolve(c, Successful(invs, signal))

\* _waitExhaustive delegates to _waitForAll (line 682).
WaitExhaustive(c, signal) == WaitForAll(c, signal)

\* Variant: exhaustive reports the outcome of every plugin that ran.
WaitExhaustiveResume_EveryOutcome(c, invs, signal) ==
    IF signal.aborted
    THEN Reject(c, signal.reason)
    ELSE Resolve(c, [k \in 1..Len(invs) |-> WrapOutcome(invs[k], signal)])

WaitExhaustiveResume(c, invs, signal) == WaitForAllResume(c, invs, signal)

----------------------------------------------------------------------------
(* scan() *)

\* The switch on mode (lines 125-134).
HandleMode(c, signal) ==
    CASE c.mode = "first" -> WaitForFirst(c, signal)
      [] c.mode = "all" -> WaitForAll(c, signal)
      [] c.mode = "exhaustive" -> WaitExhaustive(c, signal)
      [] OTHER -> Reject(c, UnknownModeError(c.mode))

\* The loop over formats (lines 79-122): every plugin is invoked.
Invoke(reg, formats) ==
    [k \in 1..Len(formats) |->
        [format |-> formats[k], scan |-> MapGet(reg, formats[k]).scan,
         st |-> "running"]]

\* Variant: validation stops at the first format without a plugin.
UnsupportedFormats_FirstOnly(reg, formats) ==
    LET missing == SelectSeq(formats, LAMBDA f : ~MapHas(reg, f))
    IN  IF missing = <<>> THEN <<>> ELSE <<Head(missing)>>

\* formats.filter(format => !this.plugins.has(format)) (lines 67-68).
UnsupportedFormats(reg, formats) ==
    SelectSeq(formats, LAMBDA f : ~MapHas(reg, f))

\* Variant: the abort check is made before the formats are validated.
ScanCall_AbortCheckFirst(reg, formats, mode, signal) ==
    LET unsupportedFormats == UnsupportedFormats(reg, formats)
        c == [IdleCall EXCEPT !.status = "pending", !.mode = mode,
                              !.formats = formats, !.total = Len(formats)]
    IN  IF signal.aborted
        THEN [call |-> Reject(c, signal.reason), inv |-> <<>>]
        ELSE IF Len(unsupportedFormats) > 0
        THEN [call |-> Reject(c, UnsupportedFormatError(unsupportedFormats)),
              inv |-> <<>>]
        ELSE [call |-> HandleMode(c, signal), inv |-> Invoke(reg, formats)]

\* The synchronous part of scan(): the new promise and the invocations made.
ScanCall(reg, formats, mode, signal) ==
    LET unsupportedFormats == UnsupportedFormats(reg, formats)
        c == [IdleCall EXCEPT !.status = "pending", !.mode = mode,
                              !.formats = formats, !.total = Len(formats)]
    IN  IF Len(unsupportedFormats) > 0
        THEN [call |-> Reject(c, UnsupportedFormatError(unsupportedFormats)),
              inv |-> <<>>]
        ELSE IF signal.aborted
        THEN [call |-> Reject(c, signal.reason), inv |-> <<>>]
        ELSE [call |-> HandleMode(c, signal), inv |-> Invoke(reg, formats)]

\* The reactions of a call to the settlement of one of its plugins.
OnPluginSettled(c, o) ==
    IF c.mode = "first" THEN FirstOnSettled(c, o) ELSE c

\* Variant: the abort event rejects the call in every mode.
OnAbort_EveryMode(c, signal) == Reject(c, signal.reason)

\* The reactions of a call to the abort event of its signal.
OnAbort(c, signal) ==
    IF c.mode = "first" /\ c.listening THEN AbortHandler(c, signal) ELSE c

\* The continuation of a call that awaits Promise.allSettled.
OnAllSettled(c, invs, signal) ==
    CASE c.mode = "all" -> WaitForAllResume(c, invs, signal)
      [] c.mode = "exhaustive" -> WaitExhaustiveResume(c, invs, signal)
      [] OTHER -> c

\* The reactions to several plugin promises that settle within one task of
\* the event loop: each reaction is a microtask, run in the order in which
\* the promises settled.
RECURSIVE SettleAll(_, _, _, _)
SettleAll(c, invs, order, signal) ==
    IF order = <<>> THEN c
    ELSE SettleAll(OnPluginSettled(c, WrapOutcome(invs[Head(order)], signal)),
                   invs, Tail(order), signal)

\* The orders in which some of n promises can settle.
Orders(n) ==
    {o \in UNION {[1..m -> 1..n] : m \in 1..n} :
        \A i, j \in 1..Len(o) : o[i] = o[j] => i = j}

\* The same request with the other of the two waiting modes.
TwinMode(mode) ==
    CASE mode = "all" -> "exhaustive"
      [] mode = "exhaustive" -> "all"
      [] OTHER -> mode

----------------------------------------------------------------------------
(* scanAny() *)

\* An optional value: <<>> is undefined, <<v>> is v.
Undefined == <<>>

Some(v) == <<v>>

\* An options object; formats, mode and timeoutMs may be left undefined.
Options(formats, mode, signal, timeoutMs) ==
    [formats |-> formats, mode |-> mode, signal |-> signal,
     timeoutMs |-> timeoutMs]

\* The option objects a caller passes to scanAny().
AnyOptions ==
    { Options(f, m, us, t) :
        f \in {Undefined, Some(<<"qr_code">>), Some(<<"mrz">>)},
        m \in {Undefined, Some("all")},
        us \in UserSignals,
        t \in {Undefined} \cup {Some(n) : n \in TimeoutValues} }

\* Variant: the caller's options are spread last and win.
ScanAnyOptions_CallerWins(reg, options) ==
    Options(IF options.formats = Undefined
            THEN Some(GetSupportedFormats(reg)) ELSE options.formats,
            IF options.mode = Undefined THEN Some("first") ELSE options.mode,
            options.signal,
            IF options.timeoutMs = Undefined THEN Some(0) ELSE options.timeoutMs)

\* The options scanAny() hands to scan() (lines 520-532): the caller's
\* options, then formats, mode and timeoutMs written over them.
ScanAnyOptions(reg, options) ==
    LET timeoutMs == IF options.timeoutMs = Undefined
                     THEN Some(0) ELSE options.timeoutMs
    IN  [options EXCEPT !.formats = Some(GetSupportedFormats(reg)),
                        !.mode = Some("first"),
                        !.timeoutMs = timeoutMs]

----------------------------------------------------------------------------
(* The options handed to a plugin *)

\* An options object for a plugin: `owner` stands for the keys of a format's
\* override (it names the format the override was written for), `signal` is
\* the signal key, holding a reference to the caller's stray signal
\* ("override") or to the signal scan() works with ("effective").
PluginOpts(owner, signal) == [owner |-> owner, signal |-> signal]

EmptyObject == PluginOpts(Undefined, Undefined)

\* {...a, ...b}: the keys of b win.
Spread(a, b) ==
    PluginOpts(IF b.owner # Undefined THEN b.owner ELSE a.owner,
               IF b.signal # Undefined THEN b.signal ELSE a.signal)

\* The pluginOptions objects a caller passes: per format no entry, an
\* override, or an override that brings a signal key of its own.
PluginOptionSets ==
    [{"qr_code", "pdf417"} ->
        {Undefined} \cup
        {Some(PluginOpts(Some("own"), sg)) :
            sg \in {Undefined, Some("override")}}]

\* pluginOptions[format], with the override tagged by its format; spreading
\* undefined adds no key.
Override(pluginOptions, format) ==
    IF format \in DOMAIN pluginOptions /\ pluginOptions[format] # Undefined
    THEN PluginOpts(Some(format), pluginOptions[format][1].signal)
    ELSE EmptyObject

\* Variant: the override is spread after the signal.
PluginCallOptions_OverrideLast(pluginOptions, format) ==
    Spread(PluginOpts(Undefined, Some("effective")),
           Override(pluginOptions, format))

\* {...pluginOptions[format], signal} (lines 91-94).
PluginCallOptions(pluginOptions, format) ==
    Spread(Override(pluginOptions, format),
           PluginOpts(Undefined, Some("effective")))

\* The loop over formats with the options each plugin is called with.
InvokeWith(reg, formats, pluginOptions) ==
    [k \in 1..Len(formats) |->
        [format |-> formats[k], scan |-> MapGet(reg, formats[k]).scan,
         st |-> "running",
         options |-> PluginCallOptions(pluginOptions, formats[k])]]

----------------------------------------------------------------------------
(* scanContinuous() *)

\* The default of `formats` in scan() (line 56).
DefaultFormats == <<"qr_code", "pdf417", "pdf417_enhanced", "mrz">>

\* The destructuring defaults of scan() for formats and mode (lines 55-57).
ScanDefaults(options) ==
    [formats |-> IF options.formats = Undefined
                 THEN DefaultFormats ELSE options.formats[1],
     mode |-> IF options.mode = Undefined THEN "first" ELSE options.mode[1]]

\* The sources scanContinuous() is called on: "video" is an
\* HTMLVideoElement, the others are not.
Sources == {"video", "canvas"}

\* The option objects a caller passes to scanContinuous().
ContOptions ==
    { Options(f, m, us, t) :
        f \in {Undefined, Some(<<"qr_code">>), Some(<<"qr_code", "pdf417">>)},
        m \in {Undefined, Some("all"), Some("bogus")},
        us \in UserSignals,
        t \in {Undefined, Some(50)} }

\* The promise of scanContinuous() before the call, with the locals of the
\* strategy: `count` is frameCount or attempt, `wait` is what the controller
\* is suspended on ("frame", "scan", "delay"), `scans` counts the calls of
\* this.scan() made so far, `warned` records the console.warn of the
\* polling fallback.
IdleCont ==
    [status |-> "idle", strategy |-> "none", source |-> "none",
     formats |-> <<>>, mode |-> "first", count |-> 0, scans |-> 0,
     wait |-> "none", warned |-> FALSE, results |-> <<>>, error |-> NoError]

ResolveCont(c, results) ==
    [c EXCEPT !.status = "resolved", !.results = results, !.wait = "none"]

RejectCont(c, error) ==
    [c EXCEPT !.status = "rejected", !.error = error, !.wait = "none"]

\* Variant: every source is scanned by polling.
Route_AlwaysPolling(source) == "polling"

\* The routing of scanContinuous() (lines 220-235).
Route(source) == IF source = "video" THEN "frame-callback" ELSE "polling"

\* _isTimeoutError (lines 554-559).
IsTimeoutError(error, signal) ==
    \/ error.name = "TimeoutError"
    \/ error.name = "AbortError" /\ signal.reason.name = "TimeoutError"

\* The context object handed to _createScanError.
Context(customMessage, frameCount, attemptCount, reason, scanMethod) ==
    [customMessage |-> customMessage, frameCount |-> frameCount,
     attemptCount |-> attemptCount, reason |-> reason,
     scanMethod |-> scanMethod]

\* _createScanError (lines 789-821).  The message is kept as its parts.
CreateScanError(originalError, context) ==
    [message |-> [text |-> IF context.customMessage # Undefined
                           THEN context.customMessage[1]
                           ELSE originalError.message,
                  frames |-> context.frameCount,
                  attempts |-> context.attemptCount,
                  reason |-> context.reason],
     code |-> IF originalError.code # "none"
              THEN originalError.code ELSE "SCAN_ERROR",
     scanMethod |-> IF context.scanMethod = Undefined
                    THEN "unknown" ELSE context.scanMethod[1],
     frameCount |-> context.frameCount,
     attemptCount |-> context.attemptCount,
     reason |-> context.reason,
     originalError |-> originalError]

\* The reason computed in both catch blocks (lines 358-359, 474-475).
AbortReasonText(error, signal) ==
    IF IsTimeoutError(error, signal) THEN "timeout" ELSE "user cancellation"

\* Variant: a failed attempt ends the continuous scan.
FrameCatch_Propagates(c, error, signal) ==
    RejectCont(c, CreateScanError(error,
        Context(Some("Continuous scan aborted"), Some(c.count), Undefined,
                Some(AbortReasonText(error, signal)), Some("frame-callback"))))

\* The catch block of scanFrame (lines 356-386).
FrameCatch(c, error, signal) ==
    IF error.name = "AbortError" \/ signal.aborted
    THEN RejectCont(c, CreateScanError(error,
             Context(Some("Continuous scan aborted"), Some(c.count), Undefined,
                     Some(AbortReasonText(error, signal)),
                     Some("frame-callback"))))
    ELSE [c EXCEPT !.wait = "frame"]

\* Variant: the next frame is requested before the scan is awaited.
FrameAfterScan_SchedulesEarly(c, cl, signal) ==
    CASE cl.status = "resolved" /\ Len(cl.results) > 0 ->
             ResolveCont(c, cl.results)
      [] cl.status = "rejected" -> FrameCatch(c, cl.error, signal)
      [] OTHER -> [c EXCEPT !.wait = "frame"]

\* Variant: resolve(results) without the return: the next frame is
\* requested all the same.
FrameAfterScan_NoReturn(c, cl, signal) ==
    CASE cl.status = "resolved" /\ Len(cl.results) > 0 ->
             [ResolveCont(c, cl.results) EXCEPT !.wait = "frame"]
      [] cl.status = "resolved" /\ Len(cl.results) = 0 ->
             [c EXCEPT !.wait = "frame"]
      [] cl.status = "rejected" -> FrameCatch(c, cl.error, signal)
      [] OTHER -> [c EXCEPT !.wait = "scan"]

\* scanFrame after `await this.scan(...)` (lines 343-354).
FrameAfterScan(c, cl, signal) ==
    CASE cl.status = "resolved" /\ Len(cl.results) > 0 ->
             ResolveCont(c, cl.results)
      [] cl.status = "resolved" /\ Len(cl.results) = 0 ->
             [c EXCEPT !.wait = "frame"]
      [] cl.status = "rejected" -> FrameCatch(c, cl.error, signal)
      [] OTHER -> [c EXCEPT !.wait = "scan"]

\* Variant: every attempt is given the deadline anew.
AttemptOptions_OwnDeadline(c, signal) ==
    Options(Some(c.formats), Some(c.mode), signal, Some(50))

\* The options of the scan of one attempt (lines 318-325 and 447-453): the
\* caller's formats and mode, the signal of the strategy, no deadline.
AttemptOptions(c, signal) ==
    Options(Some(c.formats), Some(c.mode), signal, Some(0))

\* _combineSignals(userSignal, timeoutMs) || userSignal, for scan() called
\* with a signal object: without a deadline the object itself.
CombineWith(signal, timeoutMs) ==
    IF timeoutMs <= 0 THEN signal
    ELSE IF signal.kind = "none" THEN Signal("timeout", FALSE, NoError)
    ELSE [signal EXCEPT !.kind = "any"]

\* The scan() of one attempt up to its first await: the call, the
\* invocations, the signal it works with and whether it armed a timer.
AttemptScan(reg, o) ==
    LET signal == CombineWith(o.signal, o.timeoutMs[1])
        started == ScanCall(reg, o.formats[1], o.mode[1], signal)
    IN  [call |-> started.call, inv |-> started.inv, eff |-> signal,
         armed |-> (o.timeoutMs[1] > 0)]

\* Variant: the frame is counted before the signal is looked at.
ScanFrame_CountsFirst(c, reg, cl, invs, signal) ==
    LET c1 == [c EXCEPT !.count = @ + 1]
    IN  IF signal.aborted
        THEN [cont |-> FrameCatch(c1, signal.reason, signal),
              call |-> cl, inv |-> invs, eff |-> signal, armed |-> FALSE]
        ELSE LET c2 == [c1 EXCEPT !.scans = @ + 1]
                 started == AttemptScan(reg, AttemptOptions(c, signal))
             IN  [cont |-> FrameAfterScan(c2, started.call, signal),
                  call |-> started.call, inv |-> started.inv,
                  eff |-> started.eff, armed |-> started.armed]

\* scanFrame up to its await (lines 296-325): the frame counts once the
\* signal was found live, and the scan is given the same signal and no
\* deadline of its own.
ScanFrame(c, reg, cl, invs, signal) ==
    IF signal.aborted
    THEN [cont |-> FrameCatch(c, signal.reason, signal),
          call |-> cl, inv |-> invs, eff |-> signal, armed |-> FALSE]
    ELSE LET c1 == [c EXCEPT !.count = @ + 1, !.scans = @ + 1]
             started == AttemptScan(reg, AttemptOptions(c, signal))
         IN  [cont |-> FrameAfterScan(c1, started.call, signal),
              call |-> started.call, inv |-> started.inv,
              eff |-> started.eff, armed |-> started.armed]

\* Variant: an error that is not an abort is thrown on to the caller.
PollingCatch_Rethrows(c, error, signal) ==
    IF error.name = "AbortError" \/ signal.aborted
    THEN RejectCont(c, CreateScanError(error,
             Context(Some("Continuous polling scan aborted"), Undefined,
                     Some(c.count), Some(AbortReasonText(error, signal)),
                     Some("polling"))))
    ELSE RejectCont(c, error)

\* The catch block of the polling loop (lines 471-493).
PollingCatch(c, error, signal) ==
    IF error.name = "AbortError" \/ signal.aborted
    THEN RejectCont(c, CreateScanError(error,
             Context(Some("Continuous polling scan aborted"), Undefined,
                     Some(c.count), Some(AbortReasonText(error, signal)),
                     Some("polling"))))
    ELSE [c EXCEPT !.wait = "delay"]

\* The polling loop after `await this.scan(...)` (lines 455-469).
PollingAfterScan(c, cl, signal) ==
    CASE cl.status = "resolved" /\ Len(cl.results) > 0 ->
             ResolveCont(c, cl.results)
      [] cl.status = "resolved" /\ Len(cl.results) = 0 ->
             [c EXCEPT !.wait = "delay"]
      [] cl.status = "rejected" -> PollingCatch(c, cl.error, signal)
      [] OTHER -> [c EXCEPT !.wait = "scan"]

\* The error thrown after the loop (lines 496-505).
CancelError(c) ==
    [CreateScanError(
        Err("Error", "Continuous polling scan was cancelled.", "none", <<>>),
        Context(Undefined, Undefined, Some(c.count), Undefined, Some("polling")))
     EXCEPT !.code = "SCAN_CANCELLED"]

\* Variant: a do-while loop, the signal is not looked at after the delay.
PollingLoop_NoCheck(c, reg, cl, invs, signal) ==
    LET c1 == [c EXCEPT !.count = @ + 1, !.scans = @ + 1]
        started == AttemptScan(reg, AttemptOptions(c, signal))
    IN  [cont |-> PollingAfterScan(c1, started.call, signal),
         call |-> started.call, inv |-> started.inv,
         eff |-> started.eff, armed |-> started.armed]

\* One evaluation of the loop condition and the body up to its await
\* (lines 437-453).
PollingLoop(c, reg, cl, invs, signal) ==
    IF signal.aborted
    THEN [cont |-> RejectCont(c, CancelError(c)), call |-> cl, inv |-> invs,
          eff |-> signal, armed |-> FALSE]
    ELSE LET c1 == [c EXCEPT !.count = @ + 1, !.scans = @ + 1]
             started == AttemptScan(reg, AttemptOptions(c, signal))
         IN  [cont |-> PollingAfterScan(c1, started.call, signal),
              call |-> started.call, inv |-> started.inv,
              eff |-> started.eff, armed |-> started.armed]

\* Variant: an abort ends the polling delay at once.
OnScanSettled_AbortEndsDelay(c, cl, signal) ==
    IF c.status = "pending" /\ c.wait = "delay" /\ signal.aborted
    THEN RejectCont(c, CancelError(c))
    ELSE IF c.status = "pending" /\ c.wait = "scan" /\ cl.status # "pending"
    THEN IF c.strategy = "frame-callback"
         THEN FrameAfterScan(c, cl, signal)
         ELSE PollingAfterScan(c, cl, signal)
    ELSE c

\* The continuation of the strategy that awaits the scan cl.
OnScanSettled(c, cl, signal) ==
    IF c.status = "pending" /\ c.wait = "scan" /\ cl.status # "pending"
    THEN IF c.strategy = "frame-callback"
         THEN FrameAfterScan(c, cl, signal)
         ELSE PollingAfterScan(c, cl, signal)
    ELSE c

----------------------------------------------------------------------------
(* The state machine *)

\* The built-in plugins on BarcodeDetector (src/lib/plugins/pdf417Plugin.js):
\* the format of each, and the label its wrapped errors start with.
BuiltIn == {"qr_code", "pdf417"}

Label(format) == IF format = "pdf417" THEN "PDF417" ELSE "QR code"

\* What `await detector.detect(source)` can do: return codes, return none,
\* or throw.
DetectOutcomes == {"data", "empty", "throws"}

\* An error of the detector: a DOMException or TypeError, no AbortError.
DetectorError == Err("InvalidStateError", "detect failed", "11", <<>>)

\* new Error(`${label} detection failed: ${error.message}`) (lines 53, 110).
DetectionFailed(format, error) ==
    Err("Error", "detection failed", "none", <<Label(format), error.message>>)

\* The promise of a plugin's scan(); checkpoint is the throwIfAborted() call
\* that threw, if one did.
IdlePlug ==
    [status |-> "idle", format |-> "none", results |-> "none",
     error |-> NoError, checkpoint |-> "none"]

\* The catch block of scan() (lines 47-54, 104-111): an AbortError is thrown
\* on, every other error is wrapped.
PluginCatch(format, error) ==
    IF error.name = "AbortError" THEN error
    ELSE DetectionFailed(format, error)

\* scan(source, {signal}) up to `await detector.detect(source)` (lines
\* 24-34, 81-91): the first throwIfAborted() is outside the try block.
PluginEntry(format, signal) ==
    IF signal.aborted
    THEN [IdlePlug EXCEPT !.status = "rejected", !.format = format,
                          !.error = signal.reason, !.checkpoint = "before"]
    ELSE [IdlePlug EXCEPT !.status = "detecting", !.format = format]

\* scan() after the await (lines 34-54, 91-111): the second throwIfAborted()
\* is inside the try block, so what it throws goes through the catch block.
PluginAfterDetect(p, outcome, signal) ==
    IF outcome = "throws"
    THEN [p EXCEPT !.status = "rejected",
                   !.error = PluginCatch(p.format, DetectorError)]
    ELSE IF signal.aborted
    THEN [p EXCEPT !.status = "rejected",
                   !.error = PluginCatch(p.format, signal.reason),
                   !.checkpoint = "after"]
    ELSE [p EXCEPT !.status = "resolved", !.results = outcome]

\* CameraScanner (src/index.js). The fields before the constructor ran
\* (scanType "none") and as it leaves them (lines 313-324); delegated holds
\* the scans handed to the OpticalScanner, last the outcome of the last call.
IdleCam ==
    [scanType |-> "none", mrzMode |-> "none", stream |-> FALSE,
     videoElement |-> FALSE, container |-> FALSE, isScanning |-> FALSE,
     setup |-> "none", delegated |-> <<>>, last |-> "none"]

\* The constructor's defaults (lines 290-293).
CameraConfig(c, scanType) ==
    [c EXCEPT !.scanType = scanType,
              !.mrzMode = IF scanType = "mrz" THEN "camera" ELSE "element"]

\* stop() (lines 1192-1208).
StopCamera(c) ==
    [c EXCEPT !.isScanning = FALSE, !.stream = FALSE,
              !.videoElement = FALSE, !.container = FALSE]

\* start(container) up to its first await or its return (lines 599-649).
StartCamera(c, container) ==
    IF ~container THEN [c EXCEPT !.last = "Container element is required"]
    ELSE IF c.stream /\ c.container THEN [c EXCEPT !.last = "already started"]
    ELSE IF c.scanType = "mrz" /\ c.mrzMode = "camera"
    THEN [c EXCEPT !.container = TRUE, !.last = "started"]
    ELSE [c EXCEPT !.container = TRUE, !.setup = "stream", !.last = "starting"]

\* _setupVideoElement after each of its two awaits (lines 722-743), and the
\* catch block of start() (lines 684-696).
SetupResume(c, ok) ==
    IF ~ok THEN [StopCamera(c) EXCEPT !.setup = "none", !.last = "start failed"]
    ELSE IF c.setup = "stream" THEN [c EXCEPT !.stream = TRUE, !.setup = "video"]
    ELSE [c EXCEPT !.videoElement = TRUE, !.setup = "none", !.last = "started"]

\* _getScanSource() (lines 966-984): "none" where it throws.
ScanSource(c) ==
    IF c.scanType = "mrz" /\ c.mrzMode = "camera"
    THEN IF c.container THEN "container" ELSE "null"
    ELSE IF c.videoElement THEN "video"
    ELSE IF c.stream THEN "stream"
    ELSE "none"

\* scan(options) and scanAny(options) up to the await on the OpticalScanner
\* (lines 774-840, 886-936). _opticalScanner is set by the constructor.
CameraScan(c, op, us) ==
    IF us = "aborted" THEN [c EXCEPT !.last = "AbortError"]
    ELSE IF ~c.container THEN [c EXCEPT !.last = "Camera not started"]
    ELSE IF c.isScanning THEN [c EXCEPT !.last = "Scan already in progress"]
    ELSE IF ScanSource(c) = "none"
    THEN [c EXCEPT !.isScanning = FALSE, !.last = "No scan source available"]
    ELSE [c EXCEPT !.isScanning = TRUE,
                   !.delegated = Append(@, [op |-> op, status |-> "pending",
                                            source |-> ScanSource(c)]),
                   !.last = "delegated"]

\* What the promise of the OpticalScanner settles with.
DelegatedOutcomes == {"results", "empty", "rejected"}

\* scan() and scanAny() after the await (lines 842-872, 938-958): scanAny
\* stops the camera on a result; the finally block clears the flag.
CameraScanResume(c, k, outcome) ==
    LET c1 == [c EXCEPT !.delegated[k].status = outcome]
        c2 == IF c.delegated[k].op = "scanAny" /\ outcome = "results"
              THEN StopCamera(c1) ELSE c1
    IN  [c2 EXCEPT !.isScanning = FALSE]

\* The locals of one scanContinuous() call and of the scan() it awaits
\* (lines 268-295, 423-436): its promise, its counter, its signal and the
\* timer of its deadline; ctrl names the controller whose signal it was
\* given as options.signal (0: none).
Invocation(c, cl, invs, signal, us, tm, ctrl) ==
    [cont |-> c, call |-> cl, inv |-> invs, eff |-> signal, userSig |-> us,
     timer |-> tm, ctrl |-> ctrl]

IdleOther ==
    Invocation(IdleCont, IdleCall, <<>>, Signal("none", FALSE, NoError),
               "none", "none", 0)

\* Variant: abort() on any controller reaches every call of the instance.
HoldsSignal_Any(i, ctrl) == i.cont.status # "idle"

\* Whether abort() on controller ctrl reaches the call: its signal is the
\* const of that call (lines 286, 431), made of the options it was given.
HoldsSignal(i, ctrl) == i.cont.status # "idle" /\ i.ctrl = ctrl

\* scanContinuous(source, options) up to its first suspension, as the
\* locals of the call.
StartInvocation(reg, source, options, ctrl) ==
    LET timeoutMs == IF options.timeoutMs = Undefined
                     THEN 0 ELSE options.timeoutMs[1]
        signal == CombineSignals(options.signal, timeoutMs)
        o == ScanDefaults(options)
        c == [IdleCont EXCEPT !.status = "pending", !.source = source,
                              !.strategy = Route(source),
                              !.formats = o.formats, !.mode = o.mode,
                              !.warned = (Route(source) = "polling")]
        r == IF c.strategy = "frame-callback"
             THEN [cont |-> [c EXCEPT !.wait = "frame"], call |-> IdleCall,
                   inv |-> <<>>, eff |-> signal, armed |-> FALSE]
             ELSE PollingLoop(c, reg, IdleCall, <<>>, signal)
    IN  Invocation(r.cont, r.call, r.inv, r.eff, options.signal,
                   IF timeoutMs > 0 \/ r.armed THEN "armed" ELSE "none", ctrl)

\* What the abort of its signal does to a call: to the signal, to the scan
\* it awaits and to its loop.
AbortInvocation(i, us, reason) ==
    LET kinds == IF reason = AbortReason THEN {"user", "any"}
                 ELSE {"timeout", "any"}
        e == IF i.eff.kind \in kinds THEN SignalAbort(i.eff, reason) ELSE i.eff
        cl == IF e.aborted /\ ~i.eff.aborted THEN OnAbort(i.call, e)
              ELSE i.call
    IN  [i EXCEPT !.eff = e, !.call = cl, !.userSig = us,
                  !.cont = OnScanSettled(i.cont, cl, e)]

Init ==
    /\ call = IdleCall
    /\ twin = IdleCall
    /\ inv = <<>>
    /\ userSig = "none"
    /\ timer = "none"
    /\ eff = Signal("none", FALSE, NoError)
    /\ settleOrder = <<>>
    /\ registered \in PluginLists
    /\ plugins = Construct(<<>>, registered)
    /\ req = NoRequest
    /\ cont = IdleCont
    /\ plug = IdlePlug
    /\ cam = IdleCam
    /\ other = IdleOther

\* scan(source, {formats, mode, signal, timeoutMs}) up to its first await.
Scan(formats, mode, us, timeoutMs) ==
    /\ call.status = "idle"
    /\ LET signal == CombineSignals(us, timeoutMs)
           started == ScanCall(plugins, formats, mode, signal)
       IN  /\ eff' = signal
           /\ call' = started.call
           /\ twin' = ScanCall(plugins, formats, TwinMode(mode), signal).call
           /\ inv' = started.inv
    /\ userSig' = us
    /\ timer' = IF timeoutMs > 0 THEN "armed" ELSE "none"
    /\ req' = Request("scan", <<>>, us, FALSE)
    /\ UNCHANGED <<plugins, settleOrder, registered, cont, plug, cam, other>>

\* The promise of plugin invocation k settles, and the reactions chained on
\* it run.  A plugin rejects with the signal's reason only when it finds the
\* signal aborted.
SettlePlugin(k, st) ==
    /\ k \in 1..Len(inv)
    /\ inv[k].st = "running"
    /\ st = "aborted" => eff.aborted
    /\ inv' = [inv EXCEPT ![k].st = st]
    /\ settleOrder' = Append(settleOrder, k)
    /\ call' = OnPluginSettled(call, WrapOutcome(inv'[k], eff))
    /\ twin' = OnPluginSettled(twin, WrapOutcome(inv'[k], eff))
    /\ cont' = OnScanSettled(cont, call', eff)
    /\ UNCHANGED <<plugins, userSig, timer, eff, registered, req, plug, cam,
                   other>>

\* The continuation of `await Promise.allSettled(promises)`.
AllSettled ==
    /\ call.status = "pending"
    /\ call.mode \in {"all", "exhaustive"}
    /\ \A k \in 1..Len(inv) : inv[k].st \in Settled
    /\ call' = OnAllSettled(call, inv, eff)
    /\ twin' = OnAllSettled(twin, inv, eff)
    /\ cont' = OnScanSettled(cont, call', eff)
    /\ UNCHANGED <<plugins, inv, userSig, timer, eff, settleOrder,
                   registered, req, plug, cam, other>>

\* The caller aborts its controller.
UserAbort ==
    /\ call.status # "idle" \/ cont.status # "idle" \/ plug.status # "idle"
    /\ userSig = "live"
    /\ userSig' = "aborted"
    /\ eff' = IF eff.kind \in {"user", "any"} THEN SignalAbort(eff, AbortReason)
              ELSE eff
    /\ call' = IF eff'.aborted /\ ~eff.aborted THEN OnAbort(call, eff') ELSE call
    /\ twin' = IF eff'.aborted /\ ~eff.aborted THEN OnAbort(twin, eff') ELSE twin
    /\ cont' = OnScanSettled(cont, call', eff')
    /\ UNCHANGED <<plugins, inv, timer, settleOrder, registered, req, plug,
                   cam, other>>

\* The deadline elapses: the signal of AbortSignal.timeout() aborts.
TimeoutFire ==
    /\ timer = "armed"
    /\ timer' = "fired"
    /\ eff' = IF eff.kind \in {"timeout", "any"}
              THEN SignalAbort(eff, TimeoutReason)
              ELSE eff
    /\ call' = IF eff'.aborted /\ ~eff.aborted THEN OnAbort(call, eff') ELSE call
    /\ twin' = IF eff'.aborted /\ ~eff.aborted THEN OnAbort(twin, eff') ELSE twin
    /\ cont' = OnScanSettled(cont, call', eff')
    /\ UNCHANGED <<plugins, inv, userSig, settleOrder, registered, req, plug,
                   cam, other>>

\* scanContinuous(source, options) up to its first suspension: the frame
\* strategy registers its first frame callback, the polling strategy runs
\* into its loop.
ScanContinuous(source, options) ==
    /\ cont.status = "idle"
    /\ call.status = "idle"
    /\ LET timeoutMs == IF options.timeoutMs = Undefined
                        THEN 0 ELSE options.timeoutMs[1]
           signal == CombineSignals(options.signal, timeoutMs)
           o == ScanDefaults(options)
           c == [IdleCont EXCEPT !.status = "pending", !.source = source,
                                 !.strategy = Route(source),
                                 !.formats = o.formats, !.mode = o.mode,
                                 !.warned = (Route(source) = "polling")]
           r == IF c.strategy = "frame-callback"
                THEN [cont |-> [c EXCEPT !.wait = "frame"],
                      call |-> call, inv |-> inv, eff |-> signal,
                      armed |-> FALSE]
                ELSE PollingLoop(c, plugins, call, inv, signal)
       IN  /\ eff' = r.eff
           /\ timer' = IF timeoutMs > 0 \/ r.armed THEN "armed" ELSE "none"
           /\ cont' = r.cont
           /\ call' = r.call
           /\ inv' = r.inv
           /\ twin' = IF r.cont.scans = 0 THEN twin
                      ELSE ScanCall(plugins, c.formats, TwinMode(c.mode),
                                    signal).call
    /\ userSig' = options.signal
    /\ req' = Request("scanContinuous", options, options.signal, FALSE)
    /\ UNCHANGED <<plugins, settleOrder, registered, plug, cam, other>>

\* The browser presents a frame: the registered scanFrame callback runs.
FrameReady ==
    /\ cont.wait = "frame"
    /\ eff.aborted \/ cont.scans < MaxAttempts
    /\ LET r == ScanFrame(cont, plugins, call, inv, eff)
       IN  /\ cont' = r.cont
           /\ call' = r.call
           /\ inv' = r.inv
           /\ eff' = r.eff
           /\ timer' = IF r.armed THEN "armed" ELSE timer
    /\ twin' = IF eff.aborted THEN twin
               ELSE ScanCall(plugins, cont.formats, TwinMode(cont.mode),
                             eff).call
    /\ settleOrder' = IF eff.aborted THEN settleOrder ELSE <<>>
    /\ UNCHANGED <<plugins, userSig, registered, req, plug, cam, other>>

\* The 2.5 s delay of the polling loop elapses: the loop goes round.
DelayElapsed ==
    /\ cont.wait = "delay"
    /\ eff.aborted \/ cont.scans < MaxAttempts
    /\ LET r == PollingLoop(cont, plugins, call, inv, eff)
       IN  /\ cont' = r.cont
           /\ call' = r.call
           /\ inv' = r.inv
           /\ eff' = r.eff
           /\ timer' = IF r.armed THEN "armed" ELSE timer
    /\ twin' = IF eff.aborted THEN twin
               ELSE ScanCall(plugins, cont.formats, TwinMode(cont.mode),
                             eff).call
    /\ settleOrder' = IF eff.aborted THEN settleOrder ELSE <<>>
    /\ UNCHANGED <<plugins, userSig, registered, req, plug, cam, other>>

\* scan(source, {formats, mode, signal, pluginOptions}) up to its first
\* await, the options of every plugin call recorded.
ScanWithOptions(formats, mode, us, pluginOptions) ==
    /\ call.status = "idle"
    /\ LET signal == CombineSignals(us, 0)
           started == ScanCall(plugins, formats, mode, signal)
       IN  /\ eff' = signal
           /\ call' = started.call
           /\ twin' = ScanCall(plugins, formats, TwinMode(mode), signal).call
           /\ inv' = IF Len(started.inv) = 0 THEN <<>>
                     ELSE InvokeWith(plugins, formats, pluginOptions)
    /\ userSig' = us
    /\ timer' = "none"
    /\ req' = Request("scan", pluginOptions, us, FALSE)
    /\ UNCHANGED <<plugins, settleOrder, registered, cont, plug, cam, other>>

\* One task of the event loop in which the promises of the invocations
\* listed in `order` settle, in that order, with the outcomes `sts`; the
\* order follows from the plugins' own asynchronous steps.
SettleTick(order, sts) ==
    /\ \A i \in 1..Len(order) : inv[order[i]].st = "running"
    /\ \A i \in 1..Len(order) : sts[order[i]] = "aborted" => eff.aborted
    /\ inv' = [k \in 1..Len(inv) |->
                 IF \E i \in 1..Len(order) : order[i] = k
                 THEN [inv[k] EXCEPT !.st = sts[k]] ELSE inv[k]]
    /\ settleOrder' = settleOrder \o order
    /\ call' = SettleAll(call, inv', order, eff)
    /\ twin' = SettleAll(twin, inv', order, eff)
    /\ cont' = OnScanSettled(cont, call', eff)
    /\ UNCHANGED <<plugins, userSig, timer, eff, registered, req, plug, cam,
                   other>>

\* registerPlugin(plugin): synchronous, returns or throws.
Register(plugin) ==
    /\ Len(registered) < MaxRegistrations
    /\ LET r == RegisterPlugin(plugins, plugin)
       IN  /\ plugins' = r.plugins
           /\ registered' = IF r.threw THEN registered
                             ELSE Append(registered, plugin)
           /\ req' = Request("registerPlugin", plugin, "none", r.threw)
    /\ UNCHANGED <<call, twin, inv, userSig, timer, eff, settleOrder, cont,
                   plug, cam, other>>

\* scanAny(source, options) up to the first await of the scan() it calls.
ScanAny(options) ==
    /\ call.status = "idle"
    /\ LET o == ScanAnyOptions(plugins, options)
           signal == CombineSignals(o.signal, o.timeoutMs[1])
           started == ScanCall(plugins, o.formats[1], o.mode[1], signal)
       IN  /\ eff' = signal
           /\ call' = started.call
           /\ twin' = ScanCall(plugins, o.formats[1], TwinMode(o.mode[1]),
                               signal).call
           /\ inv' = started.inv
           /\ timer' = IF o.timeoutMs[1] > 0 THEN "armed" ELSE "none"
    /\ userSig' = options.signal
    /\ req' = Request("scanAny", options, options.signal, FALSE)
    /\ UNCHANGED <<plugins, settleOrder, registered, cont, plug, cam, other>>

\* plugin.scan(source, {signal}) of a built-in plugin, with the signal that
\* scan() makes of options.signal and timeoutMs (lines 63-64, 91-94).
PluginScan(format, us, timeoutMs) ==
    /\ plug.status = "idle"
    /\ call.status = "idle"
    /\ cont.status = "idle"
    /\ eff' = CombineSignals(us, timeoutMs)
    /\ plug' = PluginEntry(format, eff')
    /\ userSig' = us
    /\ timer' = IF timeoutMs > 0 THEN "armed" ELSE "none"
    /\ req' = Request("plugin.scan", <<format>>, us, FALSE)
    /\ UNCHANGED <<plugins, call, twin, inv, settleOrder, registered, cont,
                   cam, other>>

\* The promise of detector.detect(source) settles and scan() runs on to
\* its end.
Detected(outcome) ==
    /\ plug.status = "detecting"
    /\ plug' = PluginAfterDetect(plug, outcome, eff)
    /\ UNCHANGED <<plugins, call, twin, inv, userSig, timer, eff, settleOrder,
                   registered, req, cont, cam, other>>

\* getSupportedFormats(): synchronous, returns the keys of the registry.
SupportedFormatsCall ==
    /\ req' = Request("getSupportedFormats", GetSupportedFormats(plugins),
                      "none", FALSE)
    /\ req' # req
    /\ UNCHANGED <<plugins, call, twin, inv, userSig, timer, eff, settleOrder,
                   registered, cont, plug, cam, other>>

\* new CameraScanner({scanType}).
NewCameraScanner(scanType) ==
    /\ cam.scanType = "none"
    /\ cam' = CameraConfig(cam, scanType)
    /\ UNCHANGED <<plugins, call, twin, inv, userSig, timer, eff, settleOrder,
                   registered, req, cont, plug, other>>

\* start(container); one start at a time.
CameraStart(container) ==
    /\ cam.scanType # "none"
    /\ cam.setup = "none"
    /\ cam' = StartCamera(cam, container)
    /\ UNCHANGED <<plugins, call, twin, inv, userSig, timer, eff, settleOrder,
                   registered, req, cont, plug, other>>

\* An await of _setupVideoElement returns or throws.
CameraSetup(ok) ==
    /\ cam.setup # "none"
    /\ cam' = SetupResume(cam, ok)
    /\ UNCHANGED <<plugins, call, twin, inv, userSig, timer, eff, settleOrder,
                   registered, req, cont, plug, other>>

\* scan(options) or scanAny(options) on the CameraScanner.
CameraScanCall(op, us) ==
    /\ cam.scanType # "none"
    /\ Len(cam.delegated) < MaxDelegated
    /\ cam' = CameraScan(cam, op, us)
    /\ UNCHANGED <<plugins, call, twin, inv, userSig, timer, eff, settleOrder,
                   registered, req, cont, plug, other>>

\* The promise of a delegated scan settles.
CameraScanSettled(k, outcome) ==
    /\ k \in 1..Len(cam.delegated)
    /\ cam.delegated[k].status = "pending"
    /\ cam' = CameraScanResume(cam, k, outcome)
    /\ UNCHANGED <<plugins, call, twin, inv, userSig, timer, eff, settleOrder,
                   registered, req, cont, plug, other>>

\* stop().
CameraStop ==
    /\ cam.scanType # "none"
    /\ cam' = StopCamera(cam)
    /\ cam' # cam
    /\ UNCHANGED <<plugins, call, twin, inv, userSig, timer, eff, settleOrder,
                   registered, req, cont, plug, other>>

\* A second scanContinuous(source, options) while the first is in flight,
\* given the signal of the first call's controller (ctrl 1) or of its own.
SecondScanContinuous(source, options, ctrl) ==
    /\ cont.status = "pending"
    /\ other.cont.status = "idle"
    /\ ctrl = 1 => options.signal = userSig
    /\ other' = StartInvocation(plugins, source, options, ctrl)
    /\ UNCHANGED <<plugins, call, twin, inv, userSig, timer, eff, settleOrder,
                   registered, req, cont, plug, cam>>

\* The browser presents a frame to the scanFrame callback of the second call.
SecondFrameReady ==
    /\ other.cont.wait = "frame"
    /\ other.eff.aborted \/ other.cont.scans < MaxAttempts
    /\ LET r == ScanFrame(other.cont, plugins, other.call, other.inv, other.eff)
       IN  other' = [other EXCEPT !.cont = r.cont, !.call = r.call,
                                  !.inv = r.inv, !.eff = r.eff]
    /\ UNCHANGED <<plugins, call, twin, inv, userSig, timer, eff, settleOrder,
                   registered, req, cont, plug, cam>>

\* The delay of the second call's polling loop elapses.
SecondDelayElapsed ==
    /\ other.cont.wait = "delay"
    /\ other.eff.aborted \/ other.cont.scans < MaxAttempts
    /\ LET r == PollingLoop(other.cont, plugins, other.call, other.inv,
                            other.eff)
       IN  other' = [other EXCEPT !.cont = r.cont, !.call = r.call,
                                  !.inv = r.inv, !.eff = r.eff]
    /\ UNCHANGED <<plugins, call, twin, inv, userSig, timer, eff, settleOrder,
                   registered, req, cont, plug, cam>>

\* A plugin invocation of the second call's scan settles.
SecondSettlePlugin(k, st) ==
    /\ k \in 1..Len(other.inv)
    /\ other.inv[k].st = "running"
    /\ st = "aborted" => other.eff.aborted
    /\ LET invs == [other.inv EXCEPT ![k].st = st]
           cl == OnPluginSettled(other.call, WrapOutcome(invs[k], other.eff))
       IN  other' = [other EXCEPT !.inv = invs, !.call = cl,
                        !.cont = OnScanSettled(other.cont, cl, other.eff)]
    /\ UNCHANGED <<plugins, call, twin, inv, userSig, timer, eff, settleOrder,
                   registered, req, cont, plug, cam>>

\* The deadline of the second call elapses.
SecondTimeoutFire ==
    /\ other.timer = "armed"
    /\ other' = [AbortInvocation(other, other.userSig, TimeoutReason)
                    EXCEPT !.timer = "fired"]
    /\ UNCHANGED <<plugins, call, twin, inv, userSig, timer, eff, settleOrder,
                   registered, req, cont, plug, cam>>

\* abort() on controller ctrl, while two calls may be in flight.
AbortController(ctrl) ==
    /\ ctrl = 1 => userSig = "live"
    /\ ctrl = 2 => (other.ctrl = 2 /\ other.userSig = "live")
    /\ LET first == Invocation(cont, call, inv, eff, userSig, timer, 1)
           f == IF HoldsSignal(first, ctrl)
                THEN AbortInvocation(first, "aborted", AbortReason) ELSE first
       IN  /\ cont' = f.cont
           /\ call' = f.call
           /\ eff' = f.eff
           /\ userSig' = f.userSig
    /\ other' = IF HoldsSignal(other, ctrl)
                THEN AbortInvocation(other, "aborted", AbortReason) ELSE other
    /\ UNCHANGED <<plugins, twin, inv, timer, settleOrder, registered, req,
                   plug, cam>>

Next ==
    \/ \E formats \in FormatLists, mode \in ModeValues,
          us \in UserSignals, timeoutMs \in TimeoutValues :
            Scan(formats, mode, us, timeoutMs)
    \/ \E k \in 1..Len(inv), st \in Settled : SettlePlugin(k, st)
    \/ AllSettled
    \/ UserAbort
    \/ TimeoutFire

Spec == Init /\ [][Next]_vars

AnyNext ==
    \/ \E options \in AnyOptions : ScanAny(options)
    \/ \E k \in 1..Len(inv), st \in Settled : SettlePlugin(k, st)
    \/ UserAbort
    \/ TimeoutFire

\* One scanAny() call on an instance.
AnySpec == Init /\ [][AnyNext]_vars

RegistryNext == \E plugin \in RegisterArgs : Register(plugin)

\* Registrations on an instance.
RegistrySpec == Init /\ [][RegistryNext]_vars

ContNext ==
    \/ \E source \in Sources, options \in ContOptions :
            ScanContinuous(source, options)
    \/ FrameReady
    \/ DelayElapsed
    \/ \E k \in 1..Len(inv), st \in Settled : SettlePlugin(k, st)
    \/ AllSettled
    \/ UserAbort
    \/ TimeoutFire

\* One scanContinuous() call on an instance.
ContSpec == Init /\ [][ContNext]_vars

DispatchNext ==
    \/ \E formats \in FormatLists, mode \in {"first", "all"},
          us \in {"none", "live"}, pluginOptions \in PluginOptionSets :
            ScanWithOptions(formats, mode, us, pluginOptions)
    \/ \E k \in 1..Len(inv), st \in Settled : SettlePlugin(k, st)
    \/ AllSettled
    \/ UserAbort

\* One scan() call with per-format plugin options.
DispatchSpec == Init /\ [][DispatchNext]_vars

TickNext ==
    \/ \E formats \in FormatLists, mode \in {"first", "all"},
          us \in {"none", "live"} : Scan(formats, mode, us, 0)
    \/ \E order \in Orders(Len(inv)), sts \in [1..Len(inv) -> Settled] :
            SettleTick(order, sts)
    \/ AllSettled
    \/ UserAbort

\* One scan() call whose plugin promises settle one or several per task.
TickSpec == Init /\ [][TickNext]_vars

\* Timers of the platform fire.
FairSpec == Spec /\ WF_vars(TimeoutFire)

\* The continuous scan with everything the event loop is bound to run:
\* armed timers fire, delays elapse, started plugin invocations settle and
\* the await on their promises resumes. Whether the video presents another
\* frame is up to the source.
FairContSpec ==
    /\ ContSpec
    /\ WF_vars(TimeoutFire)
    /\ WF_vars(DelayElapsed)
    /\ WF_vars(AllSettled)
    /\ WF_vars(\E k \in 1..Len(inv), st \in Settled : SettlePlugin(k, st))

\* The arguments of the calls made over the life of an instance.
LifeRegisterArgs == {Plugin("pdf417", "pdfScan"), Plugin("test", "none")}

LifeFormatLists == {<<"qr_code", "pdf417">>}

LifeAnyOptions ==
    {Options(Undefined, m, "live", Undefined) : m \in {Undefined, Some("all")}}

LifeContOptions ==
    {o \in ContOptions : /\ o.formats = Some(<<"qr_code", "pdf417">>)
                           /\ o.timeoutMs = Undefined
                           /\ o.mode = Undefined
                           /\ o.signal = "live"}

\* The life of an instance: registrations at any time, queries, and a scan
\* of each kind with its settlements and its cancellation.
LifeNext ==
    \/ \E plugin \in LifeRegisterArgs : Register(plugin)
    \/ SupportedFormatsCall
    \/ \E formats \in LifeFormatLists, mode \in {"first", "all"} :
            Scan(formats, mode, "live", 0)
    \/ \E options \in LifeAnyOptions : ScanAny(options)
    \/ \E source \in Sources, options \in LifeContOptions :
            ScanContinuous(source, options)
    \/ FrameReady
    \/ DelayElapsed
    \/ \E k \in 1..Len(inv), st \in Settled : SettlePlugin(k, st)
    \/ AllSettled
    \/ UserAbort

LifeSpec == Init /\ [][LifeNext]_vars

\* One CameraScanner and the calls made on it.
CameraNext ==
    \/ \E scanType \in {"barcode", "mrz"} : NewCameraScanner(scanType)
    \/ \E container \in BOOLEAN : CameraStart(container)
    \/ \E ok \in BOOLEAN : CameraSetup(ok)
    \/ \E op \in {"scan", "scanAny"}, us \in UserSignals :
            CameraScanCall(op, us)
    \/ \E k \in 1..Len(cam.delegated), outcome \in DelegatedOutcomes :
            CameraScanSettled(k, outcome)
    \/ CameraStop

CameraSpec == Init /\ [][CameraNext]_vars

\* The options of two overlapping calls.
PairOptions ==
    {o \in ContOptions : /\ o.formats = Some(<<"qr_code">>)
                           /\ o.mode = Undefined
                           /\ o.signal = "live"}

\* What the plugins of two overlapping calls settle with.
PairOutcomes == {"data", "empty"}

\* Two overlapping scanContinuous() calls on one instance.
PairNext ==
    \/ \E source \in Sources, options \in PairOptions :
            ScanContinuous(source, options)
    \/ \E source \in Sources, options \in PairOptions, ctrl \in {1, 2} :
            SecondScanContinuous(source, options, ctrl)
    \/ FrameReady
    \/ DelayElapsed
    \/ \E k \in 1..Len(inv), st \in PairOutcomes : SettlePlugin(k, st)
    \/ TimeoutFire
    \/ SecondFrameReady
    \/ SecondDelayElapsed
    \/ \E k \in 1..Len(other.inv), st \in PairOutcomes :
            SecondSettlePlugin(k, st)
    \/ SecondTimeoutFire
    \/ \E ctrl \in {1, 2} : AbortController(ctrl)

PairSpec == Init /\ [][PairNext]_vars

\* A built-in plugin called on its own.
PluginNext ==
    \/ \E f \in BuiltIn, us \in UserSignals, t \in TimeoutValues :
            PluginScan(f, us, t)
    \/ \E o \in DetectOutcomes : Detected(o)
    \/ UserAbort
    \/ TimeoutFire

PluginSpec == Init /\ [][PluginNext]_vars

----------------------------------------------------------------------------
(* Properties of the single-shot scan *)

Range(seq) == {seq[k] : k \in 1..Len(seq)}

Started == call.status # "idle"

\* Every requested format has a plugin: the call passes format validation.
AllRegistered == \A f \in Range(call.formats) : MapHas(plugins, f)

\* The call passed validation and the abort check: its plugins were invoked.
Dispatched == Started /\ Len(inv) = Len(call.formats)

\* Invocation k has been started and has not settled.
Running(k) == IF k \in 1..Len(inv) THEN inv[k].st = "running" ELSE FALSE

DataIdx == {k \in 1..Len(inv) : inv[k].st = "data"}

\* C1: a scan whose format list holds a format without a plugin rejects
\* with the unsupported-format error, which names every missing requested
\* format, and invokes no plugin at all.
C1_UnsupportedRejectsNamingAll ==
    (Started /\ ~AllRegistered) =>
        /\ call.status = "rejected"
        /\ call.error.message = "Unsupported formats"
        /\ Range(call.error.detail) =
               {f \in Range(call.formats) : ~MapHas(plugins, f)}
        /\ inv = <<>>

C1_Witness ==
    /\ call.status = "rejected"
    /\ call.error.message = "Unsupported formats"
    /\ Cardinality(Range(call.error.detail)) = 2
    /\ inv = <<>>

\* C2: a scan entered with the caller's signal already aborted, all its
\* formats being registered, rejects with the caller's reason and invokes
\* no plugin, whatever the mode and the timeout.
C2_PreAbortedRejects ==
    [][(call.status = "idle" /\ call'.status # "idle" /\ userSig' = "aborted"
          /\ \A f \in Range(call'.formats) : MapHas(plugins, f))
       => (call'.status = "rejected" /\ call'.error = AbortReason
             /\ inv' = <<>>)]_vars

C2_Witness ==
    /\ call.status = "rejected"
    /\ call.error = AbortReason
    /\ call.mode = "all"
    /\ Len(call.formats) = 2
    /\ timer = "armed"
    /\ inv = <<>>

\* C3: a first-mode scan that resolves returns exactly one outcome, that of
\* the invocation that was the earliest to settle with data; invocations
\* that settled before it without data are skipped and later ones never
\* replace it.
C3_FirstReturnsEarliestData ==
    (Started /\ call.mode = "first" /\ call.status = "resolved") =>
        /\ Len(call.results) = 1
        /\ call.results[1].success
        /\ \E j \in 1..Len(settleOrder) :
              /\ inv[settleOrder[j]].st = "data"
              /\ \A h \in 1..(j - 1) : inv[settleOrder[h]].st # "data"
              /\ call.results[1].format = inv[settleOrder[j]].format

C3_Witness ==
    /\ call.mode = "first"
    /\ call.status = "resolved"
    /\ Len(settleOrder) = 2
    /\ inv[settleOrder[1]].st = "empty"
    /\ inv[settleOrder[2]].st = "data"
    /\ inv[1].format # inv[2].format
    /\ call.results[1].format = inv[settleOrder[2]].format

\* C4 (as claimed): in first mode without cancellation the call has rejected
\* with the no-results error exactly when every requested plugin has settled
\* and none produced data.
C4_NoResultsIffAllSettledEmpty ==
    (Dispatched /\ call.mode = "first" /\ ~eff.aborted) =>
        ((call.status = "rejected" /\ call.error = NoResultsError)
           <=> \A k \in 1..Len(inv) : inv[k].st \in Settled \ {"data"})

\* C5: in all mode without cancellation the call never rejects, resolves
\* only when every invocation has settled, and returns exactly the outcomes
\* of the invocations that resolved with data (none: the empty sequence).
C5_AllReturnsExactlySuccesses ==
    (Dispatched /\ call.mode = "all" /\ ~eff.aborted) =>
        /\ call.status \in {"pending", "resolved"}
        /\ call.status = "resolved" =>
              /\ \A k \in 1..Len(inv) : inv[k].st \in Settled
              /\ Len(call.results) = Cardinality(DataIdx)
              /\ Range(call.results) =
                     {[format |-> inv[k].format, success |-> TRUE,
                       data |-> "data", error |-> "none"] : k \in DataIdx}

C5_Witness ==
    /\ call.mode = "all"
    /\ call.status = "resolved"
    /\ ~eff.aborted
    /\ Len(inv) = 2
    /\ inv[1].st = "error"
    /\ inv[2].st = "data"
    /\ Len(call.results) = 1

\* C6: under the same registry, formats, plugin behaviour and signal events,
\* a call in exhaustive mode and a call in all mode are settled the same
\* way at every moment: same state, same outcomes, same error.
C6_ExhaustiveSameAsAll ==
    (Started /\ call.mode \in {"all", "exhaustive"}) =>
        /\ twin.mode = TwinMode(call.mode)
        /\ twin.status = call.status
        /\ twin.results = call.results
        /\ twin.error = call.error

C6_Witness ==
    /\ call.mode = "exhaustive"
    /\ twin.mode = "all"
    /\ call.status = "resolved"
    /\ Len(call.results) = 1
    /\ Len(inv) = 2

\* C7: the error of a plugin that failed is never what scan rejects with.
\* Without cancellation, a call in all or exhaustive mode with a failed
\* plugin does not reject and resolves with the outcomes of the plugins
\* that produced data; a call in first mode rejects only with the
\* no-results error, and only when no plugin produced data.
C7_PluginFailureNotPropagated ==
    /\ \A f \in FormatIds : call.error # PluginError(f)
    /\ (Dispatched /\ ~eff.aborted /\ \E k \in 1..Len(inv) : inv[k].st = "error") =>
          /\ call.mode \in {"all", "exhaustive"} =>
                /\ call.status # "rejected"
                /\ call.status = "resolved" =>
                      {o.format : o \in Range(call.results)} =
                          {inv[k].format : k \in DataIdx}
          /\ (call.mode = "first" /\ call.status = "rejected") =>
                (call.error = NoResultsError /\ DataIdx = {})

C7_Witness ==
    /\ call.mode = "first"
    /\ call.status = "rejected"
    /\ call.error = NoResultsError
    /\ ~eff.aborted
    /\ Len(inv) = 2
    /\ inv[1].st = "error"
    /\ inv[2].st = "error"

\* C8: a first-mode scan with a deadline against a plugin that never
\* settles eventually rejects with the timeout error: while the plugin
\* stays unsettled, the caller does not abort and no other plugin makes the
\* call resolve, the call ends rejected with the reason of the deadline;
\* and no first-mode call is still pending once its deadline has elapsed.
C8_TimeoutRejectsHangingScan ==
    /\ \A k \in 1..MaxFormats :
          (/\ call.status = "pending"
           /\ call.mode = "first"
           /\ timer = "armed"
           /\ Running(k))
          ~> (\/ (call.status = "rejected" /\ call.error = TimeoutReason
                     /\ call.error.name = "TimeoutError")
              \/ ~Running(k)
              \/ userSig = "aborted"
              \/ call.status = "resolved")
    /\ []((call.mode = "first" /\ timer = "fired") => call.status # "pending")

C8_Witness ==
    /\ call.mode = "first"
    /\ call.status = "rejected"
    /\ call.error = TimeoutReason
    /\ userSig = "none"
    /\ Len(inv) = 1
    /\ inv[1].st = "running"

\* C9 (as claimed): when the deadline elapses before any cancellation by
\* the caller, the signal is aborted with a reason whose code is
\* SCAN_TIMEOUT, and a scan rejected with it carries that code.
C9_TimeoutCarriesScanTimeoutCode ==
    (timer = "fired" /\ userSig # "aborted") =>
        /\ eff.aborted
        /\ eff.reason.code = "SCAN_TIMEOUT"
        /\ (call.status = "rejected" /\ call.error = eff.reason) =>
              call.error.code = "SCAN_TIMEOUT"

\* C10 (as claimed): once the scan has settled, the deadline timer never
\* triggers the signal of that request.
C10_NoTimerTriggerAfterSettled ==
    [][call.status \in {"resolved", "rejected"} =>
         ~(timer = "armed" /\ timer' = "fired" /\ ~eff.aborted /\ eff'.aborted)]_vars

\* C18 (as claimed): a scan in a mode that is none of first, all and
\* exhaustive (its formats registered, its signal not aborted) rejects with
\* the unknown-mode error naming the mode, and no plugin has been invoked.
C18_UnknownModeBeforeDispatch ==
    (Started /\ req.op = "scan" /\ req.signal # "aborted" /\ AllRegistered
       /\ call.mode \notin {"first", "all", "exhaustive"}) =>
        /\ call.status = "rejected"
        /\ call.error = UnknownModeError(call.mode)
        /\ inv = <<>>

\* C19: a scan called with a format that has no plugin and with a signal
\* that is already aborted rejects with the unsupported-format error, not
\* with the signal's reason.
C19_ValidationBeforeAbortCheck ==
    (Started /\ req.op = "scan" /\ req.signal = "aborted" /\ ~AllRegistered) =>
        /\ call.status = "rejected"
        /\ call.error =
             UnsupportedFormatError(UnsupportedFormats(plugins, call.formats))
        /\ call.error # eff.reason

C19_Witness ==
    /\ req.op = "scan"
    /\ req.signal = "aborted"
    /\ eff.aborted
    /\ eff.reason = AbortReason
    /\ call.status = "rejected"
    /\ call.error.message = "Unsupported formats"
    /\ call.formats = <<"qr_code", "mrz">>
    /\ MapHas(plugins, "qr_code")

\* The formats of the invocations that resolved with data, in the order of
\* the request and in the order of settlement.
DataInRequestOrder ==
    LET idx == SelectSeq([k \in 1..Len(inv) |-> k],
                         LAMBDA k : inv[k].st = "data")
    IN  [j \in 1..Len(idx) |-> inv[idx[j]].format]

DataInSettleOrder ==
    LET idx == SelectSeq(settleOrder, LAMBDA k : inv[k].st = "data")
    IN  [j \in 1..Len(idx) |-> inv[idx[j]].format]

ResultFormats == [j \in 1..Len(call.results) |-> call.results[j].format]

\* C20 (as claimed): in all and exhaustive mode the outcomes are returned in
\* the order in which their plugins settled.
C20_OutcomesInSettlementOrder ==
    (Dispatched /\ call.mode \in {"all", "exhaustive"}
       /\ call.status = "resolved") => ResultFormats = DataInSettleOrder

\* C20 (amended): in all and exhaustive mode the outcomes are returned in
\* the order in which their formats were requested, whatever the order in
\* which their plugins settled.
C20_OutcomesInRequestOrder ==
    (Dispatched /\ call.mode \in {"all", "exhaustive"}
       /\ call.status = "resolved") => ResultFormats = DataInRequestOrder

C20_Witness ==
    /\ call.mode = "all"
    /\ call.status = "resolved"
    /\ settleOrder = <<2, 1>>
    /\ call.formats = <<"qr_code", "pdf417">>
    /\ ResultFormats = <<"qr_code", "pdf417">>

\* The scan() call a scanAny() call is claimed to make, given the formats
\* and the caller's options.
AsScan(formats, o) ==
    LET timeoutMs == IF o.timeoutMs = Undefined THEN 0 ELSE o.timeoutMs[1]
        signal == CombineSignals(o.signal, timeoutMs)
        started == ScanCall(plugins, formats, "first", signal)
    IN  [call |-> started.call, inv |-> started.inv, eff |-> signal,
         timer |-> IF timeoutMs > 0 THEN "armed" ELSE "none"]

ScanAnyStep == call.status = "idle" /\ req'.op = "scanAny"

\* C17 (as claimed): scanAny(source, options) starts the call that scan
\* starts with mode 'first', the caller's signal and timeoutMs, and the
\* caller's formats when given, every registered format otherwise.
C17_ScanAnyDefaultsFormats ==
    [][ScanAnyStep =>
         LET o == req'.arg
             s == AsScan(IF o.formats = Undefined
                         THEN GetSupportedFormats(plugins) ELSE o.formats[1], o)
         IN  call' = s.call /\ inv' = s.inv /\ eff' = s.eff /\ timer' = s.timer
       ]_vars

\* C17 (amended): scanAny(source, options) starts the call that scan starts
\* with mode 'first', the caller's signal and timeoutMs, and every
\* registered format, whatever formats and mode the caller's options name.
C17_ScanAnyIsScanFirstOverRegistered ==
    [][ScanAnyStep =>
         LET s == AsScan(GetSupportedFormats(plugins), req'.arg)
         IN  call' = s.call /\ inv' = s.inv /\ eff' = s.eff /\ timer' = s.timer
       ]_vars

C17_Witness ==
    /\ req.op = "scanAny"
    /\ req.arg.formats = Some(<<"mrz">>)
    /\ req.arg.mode = Some("all")
    /\ req.arg.timeoutMs = Some(50)
    /\ call.formats = <<"qr_code", "pdf417">>
    /\ call.mode = "first"
    /\ call.status = "resolved"
    /\ call.results[1].format = "pdf417"

----------------------------------------------------------------------------
(* Properties of the registry *)

\* The positions in `registered` of the registrations under format f.
RegisteredAs(f) == {i \in 1..Len(registered) : registered[i].format = f}

Last(S) == CHOOSE i \in S : \A j \in S : j <= i

\* C15: getSupportedFormats returns the formats registered so far, each
\* once, and the plugin held for a format is the last one registered
\* under it.
C15_SupportedFormatsAreRegistered ==
    LET formats == GetSupportedFormats(plugins)
    IN  /\ Range(formats) = {registered[i].format : i \in 1..Len(registered)}
        /\ \A i, j \in 1..Len(formats) : formats[i] = formats[j] => i = j
        /\ \A f \in Range(formats) :
               MapGet(plugins, f) = registered[Last(RegisteredAs(f))]

C15_Witness ==
    /\ req.op = "registerPlugin"
    /\ registered = <<Plugin("qr_code", "qrScan"), Plugin("pdf417", "pdfScan"),
                      Plugin("test_format", "testScan"),
                      Plugin("qr_code", "testScan")>>
    /\ GetSupportedFormats(plugins) = <<"qr_code", "pdf417", "test_format">>
    /\ MapGet(plugins, "qr_code").scan = "testScan"

\* C16: a registerPlugin call with a plugin that has no format or no scan
\* operation throws and leaves the registry as it was.
C16_InvalidPluginThrows ==
    [][(req'.op = "registerPlugin"
          /\ (req'.arg.format = "" \/ req'.arg.scan = "none")) =>
         (req'.threw /\ plugins' = plugins /\ registered' = registered)
      ]_vars

C16_Witness ==
    /\ req = Request("registerPlugin", Plugin("test", "none"), "none", TRUE)
    /\ plugins = <<Plugin("qr_code", "qrScan"), Plugin("pdf417", "pdfScan"),
                   Plugin("test_format", "testScan")>>

----------------------------------------------------------------------------
(* Properties of the continuous scan *)

ContStarted == cont.status # "idle"

\* C11: scanContinuous takes the frame strategy exactly when the source is
\* a video element and the polling strategy, with a warning, otherwise; the
\* strategy never changes during the call, a frame run never waits on the
\* polling delay and a polling run never waits on a frame.
C11_StrategyChosenOnceAtEntry ==
    /\ [](ContStarted =>
            /\ (cont.strategy = "frame-callback") <=> (cont.source = "video")
            /\ (cont.strategy = "polling") <=> (cont.source # "video")
            /\ cont.warned <=> (cont.strategy = "polling")
            /\ (cont.wait = "delay") => (cont.strategy = "polling")
            /\ (cont.wait = "frame") => (cont.strategy = "frame-callback"))
    /\ [][ContStarted =>
            (cont'.strategy = cont.strategy /\ cont'.source = cont.source)]_vars

C11_Witness ==
    /\ cont.source = "canvas"
    /\ cont.strategy = "polling"
    /\ cont.warned
    /\ cont.wait = "delay"
    /\ cont.scans = 1

\* An outcome of a single-shot scan that is neither data nor an abort.
PlainFailure(cl) ==
    \/ cl.status = "rejected" /\ cl.error.name \notin {"AbortError", "TimeoutError"}
    \/ cl.status = "resolved" /\ cl.results = <<>>

\* The step ends an attempt: the scan that was awaited settles, or a scan
\* is started and settles at once.
AttemptEnds ==
    /\ call'.status \in {"resolved", "rejected"}
    /\ \/ cont.status = "pending" /\ cont.wait = "scan" /\ call.status = "pending"
       \/ cont'.scans = cont.scans + 1

\* C12: an attempt that ends in a plugin failure, a validation failure or
\* no results leaves scanContinuous pending and waiting for its next
\* attempt; the call resolves only with results and rejects only once the
\* signal is aborted.
C12_AttemptFailureDoesNotSettle ==
    /\ [][(AttemptEnds /\ PlainFailure(call')) =>
            /\ cont'.status = "pending"
            /\ cont'.wait = IF cont'.strategy = "frame-callback"
                            THEN "frame" ELSE "delay"]_vars
    /\ [](cont.status = "resolved" => Len(cont.results) > 0)
    /\ [](cont.status = "rejected" => eff.aborted)

C12_Witness ==
    /\ cont.status = "pending"
    /\ cont.strategy = "frame-callback"
    /\ cont.wait = "frame"
    /\ cont.scans = 1
    /\ call.status = "rejected"
    /\ call.error = NoResultsError
    /\ ~eff.aborted

\* C13: every error scanContinuous rejects with names the strategy of the
\* call and carries, as frameCount or attemptCount, the number of
\* single-shot scans the call has started.
C13_RejectionNamesStrategyAndCount ==
    cont.status = "rejected" =>
        /\ cont.strategy \in {"frame-callback", "polling"}
        /\ cont.error.scanMethod = cont.strategy
        /\ (IF cont.strategy = "frame-callback"
            THEN cont.error.frameCount ELSE cont.error.attemptCount)
               = Some(cont.scans)

C13_Witness ==
    /\ cont.status = "rejected"
    /\ cont.strategy = "frame-callback"
    /\ cont.error.frameCount = Some(1)
    /\ cont.error.reason = Some("timeout")
    /\ cont.wait = "none"
    /\ call.error = NoResultsError

\* C14 (as claimed): whenever scanContinuous rejects because of its signal,
\* the reason of the error is 'timeout' exactly when the deadline aborted
\* the signal, and 'user cancellation' when the caller did.
C14_ReasonTellsTimeoutFromCaller ==
    (cont.status = "rejected" /\ eff.aborted) =>
        /\ (cont.error.reason = Some("timeout")) <=> (eff.reason = TimeoutReason)
        /\ (eff.reason = AbortReason) =>
               (cont.error.reason = Some("user cancellation"))

\* C21 (as claimed): every single-shot scan of a continuous scan runs in
\* first mode, whatever mode scanContinuous was called with.
C21_AttemptsRunInFirstMode ==
    (ContStarted /\ call.status # "idle") => call.mode = "first"

\* The deadline the caller asked scanContinuous for.
ContDeadline ==
    IF req.arg.timeoutMs = Undefined THEN 0 ELSE req.arg.timeoutMs[1]

\* C29: a continuous scan arms its deadline at entry, when it has one, and
\* never again; starting an attempt leaves the timer and the signal as they
\* are, and the signal an attempt works with is the one made at entry.
C29_DeadlineArmedOnceAtEntry ==
    /\ [](ContStarted => ((timer # "none") <=> (ContDeadline > 0)))
    /\ [][ContStarted =>
            /\ timer' = timer \/ (timer = "armed" /\ timer' = "fired")
            /\ eff'.kind = eff.kind
            /\ (cont'.scans = cont.scans + 1) => (eff' = eff /\ timer' = timer)
         ]_vars

C29_Witness ==
    /\ cont.status = "rejected"
    /\ cont.scans = 2
    /\ timer = "fired"
    /\ call.status = "rejected"
    /\ call.error = TimeoutReason
    /\ cont.error.reason = Some("timeout")
    /\ cont.error.originalError = TimeoutReason

\* C27: in both strategies an attempt is started only while the signal is
\* not aborted, and the frame or attempt counts only when a scan starts.
C27_NoAttemptOnceAborted ==
    /\ [][(cont'.scans > cont.scans) =>
            (~eff'.aborted /\ cont'.count = cont.count + 1)]_vars
    /\ [][(cont'.count > cont.count) => (cont'.scans = cont.scans + 1)]_vars

C27_Witness ==
    /\ cont.strategy = "polling"
    /\ cont.status = "rejected"
    /\ cont.error.code = "SCAN_CANCELLED"
    /\ cont.scans = 1
    /\ eff.aborted
    /\ eff.reason = AbortReason

ContSettled == cont.status \in {"resolved", "rejected"}

\* C28: scanContinuous goes from idle to pending to resolved or rejected
\* and never back; once settled its promise and its locals stay as they
\* are, nothing is scheduled, and no further scan is started (invocations
\* still running may settle, nothing else changes).
C28_ContinuousSettlesOnce ==
    /\ [](ContSettled => cont.wait = "none")
    /\ [][(cont.status = "pending") => (cont'.status # "idle")]_vars
    /\ [][ContSettled =>
            /\ cont' = cont
            /\ Len(inv') = Len(inv)
            /\ \A k \in 1..Len(inv) :
                   (inv'[k] # inv[k]) => (inv[k].st = "running")]_vars

C28_Witness ==
    /\ cont.status = "resolved"
    /\ cont.strategy = "frame-callback"
    /\ cont.scans = 2
    /\ Len(cont.results) = 1
    /\ cont.results[1].format = "qr_code"
    /\ Len(inv) = 2
    /\ inv[2].st = "error"
    /\ settleOrder = <<1, 2>>

----------------------------------------------------------------------------
(* Properties of dispatch and settlement *)

AllInvSettled == \A k \in 1..Len(inv) : inv[k].st \in Settled

SignalErrors == {AbortReason, TimeoutReason}

\* C22 (as claimed): in every mode a dispatched scan rejects with the
\* signal's reason or with the no-results error only once every plugin
\* invocation has settled.
C22_RejectsOnlyAfterDispatchSettles ==
    (Dispatched /\ call.status = "rejected"
       /\ call.error \in SignalErrors \cup {NoResultsError}) => AllInvSettled

\* C22 (amended): a dispatched scan rejects with the no-results error, and
\* in all or exhaustive mode with the signal's reason, only once every
\* plugin invocation has settled; in first mode the call is rejected as
\* soon as its signal is aborted, whatever is still in flight.
C22_RejectsAfterDispatchExceptFirstAbort ==
    /\ (Dispatched /\ call.status = "rejected"
          /\ \/ call.error = NoResultsError
             \/ call.mode \in {"all", "exhaustive"}
                  /\ call.error \in SignalErrors) => AllInvSettled
    /\ (Dispatched /\ call.mode = "first" /\ eff.aborted) =>
           call.status # "pending"

C22_Witness ==
    /\ call.mode = "all"
    /\ call.status = "rejected"
    /\ call.error = TimeoutReason
    /\ Len(inv) = 2
    /\ inv[1].st = "data"
    /\ inv[2].st = "aborted"

\* C24: the step that resolves a first-mode scan leaves the signal and its
\* timer alone and settles only the winning invocation; the others stay
\* running, may settle later, and the results handed out do not change.
C24_FirstWinDoesNotCancelOthers ==
    /\ [][(call.mode = "first" /\ call.status = "pending"
             /\ call'.status = "resolved") =>
            /\ eff' = eff
            /\ timer' = timer
            /\ userSig' = userSig
            /\ \A k \in 1..Len(inv) :
                   (inv[k].st = "running"
                      /\ inv[k].format # call'.results[1].format) =>
                       inv'[k].st = "running"]_vars
    /\ [][(call.mode = "first" /\ call.status = "resolved") =>
            call'.results = call.results]_vars

C24_Witness ==
    /\ call.mode = "first"
    /\ call.status = "resolved"
    /\ call.results[1].format = "qr_code"
    /\ ~eff.aborted
    /\ Len(inv) = 2
    /\ inv[2].format = "pdf417"
    /\ inv[2].st = "data"
    /\ settleOrder = <<1, 2>>

C26_AbortIsIrreversible ==
    [][eff.aborted => eff' = eff]_vars

C26_Witness ==
    /\ eff.aborted
    /\ eff.kind = "any"
    /\ eff.reason = TimeoutReason
    /\ timer = "fired"
    /\ userSig = "aborted"

\* The number of invocations made for format f.
InvokedFor(f) == Cardinality({k \in 1..Len(inv) : inv[k].format = f})

\* Invocation k was made with the signal scan() works with and with no
\* override but the one written for its own format.
OwnOptions(k) ==
    /\ inv[k].options.signal = Some("effective")
    /\ inv[k].options.owner = Override(req.arg, inv[k].format).owner
    /\ inv[k].options.owner \in {Undefined, Some(inv[k].format)}

\* C23 (as claimed): in a dispatched scan the plugin of every requested
\* format is invoked exactly once, all invocations are running when the
\* call first waits, and each was given the effective signal and only its
\* own format's override.
C23_EachFormatInvokedOnce ==
    /\ [](Dispatched =>
            /\ \A f \in Range(call.formats) : InvokedFor(f) = 1
            /\ \A k \in 1..Len(inv) : OwnOptions(k))
    /\ [][(call.status = "idle" /\ call'.status # "idle") =>
            \A k \in 1..Len(inv') : inv'[k].st = "running"]_vars

\* C23 (amended): in a dispatched scan one invocation is made for every
\* entry of the requested format list, in list order, with the plugin
\* registered for that format; all invocations are running when the call
\* first waits, and each was given the effective signal and only its own
\* format's override.
C23_EachEntryInvokedOnce ==
    /\ [](Dispatched =>
            /\ Len(inv) = Len(call.formats)
            /\ \A k \in 1..Len(inv) :
                  /\ inv[k].format = call.formats[k]
                  /\ inv[k].scan = MapGet(plugins, call.formats[k]).scan
                  /\ OwnOptions(k))
    /\ [][(call.status = "idle" /\ call'.status # "idle") =>
            \A k \in 1..Len(inv') : inv'[k].st = "running"]_vars

C23_Witness ==
    /\ call.status = "pending"
    /\ call.formats = <<"qr_code", "qr_code">>
    /\ Len(inv) = 2
    /\ inv[1].st = "running"
    /\ inv[2].st = "running"
    /\ req.arg["qr_code"] = Some(PluginOpts(Some("own"), Some("override")))
    /\ inv[2].options = PluginOpts(Some("qr_code"), Some("effective"))

\* The invocations that produce data in the step.
NewData == {k \in 1..Len(inv) : inv[k].st = "running" /\ inv'[k].st = "data"}

Earliest(S) == CHOOSE k \in S : \A j \in S : k <= j

\* C30 (as claimed): when a first-mode scan resolves in a task in which two
\* or more plugins produced data, the outcome returned is that of the one
\* that comes first in the requested format order.
C30_SameTickEarliestRequestedWins ==
    [][(call.mode = "first" /\ call.status = "pending"
          /\ call'.status = "resolved" /\ Cardinality(NewData) >= 2) =>
         call'.results[1].format = inv[Earliest(NewData)].format]_vars

\* C33 (as claimed): a first-mode scan that was dispatched is settled once
\* every one of its plugin invocations has settled, for every format list,
\* the empty one of scanAny() on an empty registry included.
C33_FirstSettlesWhenAllSettled ==
    (req.op = "scanAny" /\ Dispatched /\ call.mode = "first" /\ AllInvSettled)
        => call.status \in {"resolved", "rejected"}

\* C34: in all and exhaustive mode a call that settles with its signal
\* aborted rejects with the signal's reason and without outcomes, every
\* invocation having settled; while an invocation is running the call
\* stays pending, aborted signal or not.
C34_AllModeAbortRejectsAfterAllSettle ==
    /\ [][(call.mode \in {"all", "exhaustive"} /\ call.status = "pending"
             /\ Len(inv) > 0 /\ call'.status # "pending" /\ eff'.aborted) =>
            /\ call'.status = "rejected"
            /\ call'.error = eff'.reason
            /\ call'.results = <<>>
            /\ \A k \in 1..Len(inv') : inv'[k].st \in Settled]_vars
    /\ [](\A k \in 1..Len(inv) :
            (call.mode \in {"all", "exhaustive"} /\ Running(k)) =>
                call.status = "pending")

C34_Witness ==
    /\ call.mode = "exhaustive"
    /\ call.status = "rejected"
    /\ call.error = AbortReason
    /\ Len(inv) = 2
    /\ inv[1].st = "data"
    /\ inv[2].st = "data"
    /\ timer = "none"

\* C35: in the polling strategy an abort during the delay changes nothing
\* of the call; when the delay elapses with the signal aborted the call
\* rejects with the enriched cancel error and starts no scan.
C35_AbortDuringDelayWaitsForDelay ==
    /\ [][(cont.wait = "delay" /\ ~eff.aborted /\ eff'.aborted) =>
            cont' = cont]_vars
    /\ [][(cont.wait = "delay" /\ eff.aborted /\ cont' # cont) =>
            /\ cont'.status = "rejected"
            /\ cont'.scans = cont.scans
            /\ cont'.error.scanMethod = "polling"
            /\ cont'.error.code = "SCAN_CANCELLED"
            /\ cont'.error.attemptCount = Some(cont.scans)
            /\ call' = call /\ inv' = inv]_vars
    /\ []((cont.wait = "delay") =>
            (cont.status = "pending" /\ cont.strategy = "polling"))

C35_Witness ==
    /\ cont.strategy = "polling"
    /\ cont.status = "rejected"
    /\ cont.scans = 1
    /\ cont.error.code = "SCAN_CANCELLED"
    /\ eff.reason = TimeoutReason
    /\ timer = "fired"
    /\ call.error = NoResultsError

\* The continuous scan asks for a format without a plugin or for a mode
\* that scan() does not know.
Structural ==
    \/ \E f \in Range(cont.formats) : ~MapHas(plugins, f)
    \/ cont.mode \notin {"first", "all", "exhaustive"}

StructuralErrors ==
    {UnsupportedFormatError(UnsupportedFormats(plugins, cont.formats)),
     UnknownModeError(cont.mode)}

\* C36: a continuous scan of an unregistered format or in an unknown mode
\* never resolves and never rejects with that error: each attempt's scan
\* rejects with it and the next attempt is scheduled; the call rejects only
\* once its signal is aborted, with the enriched abort error, and without a
\* signal it stays pending.
C36_StructuralErrorIsRetried ==
    /\ [](ContStarted /\ Structural =>
            /\ cont.status # "resolved"
            /\ (call.status # "idle") =>
                  (call.status = "rejected" /\ call.error \in StructuralErrors)
            /\ (cont.status = "rejected") =>
                  /\ eff.aborted
                  /\ cont.error # call.error
                  /\ cont.error.originalError \notin StructuralErrors
            /\ (eff.kind = "none") => (cont.status = "pending"))
    /\ [][(ContStarted' /\ Structural' /\ cont'.scans = cont.scans + 1) =>
            /\ cont'.status = "pending"
            /\ cont'.wait = IF cont'.strategy = "frame-callback"
                            THEN "frame" ELSE "delay"]_vars

C36_Witness ==
    /\ cont.status = "pending"
    /\ cont.strategy = "polling"
    /\ cont.mode = "bogus"
    /\ cont.formats = <<"qr_code">>
    /\ cont.scans = 2
    /\ cont.wait = "delay"
    /\ call.error = UnknownModeError("bogus")
    /\ eff.kind = "none"

\* C39: a continuous scan waits on one thing at a time: while a frame or a
\* delay is awaited the last scan has settled, and an attempt starts from a
\* frame or a delay (or at entry), never while a scan is awaited.
C39_AttemptsDoNotOverlap ==
    /\ []((cont.wait \in {"frame", "delay"} /\ cont.scans > 0) =>
            call.status \in {"resolved", "rejected"})
    /\ []((cont.wait = "scan") => call.status = "pending")
    /\ [][(cont'.scans = cont.scans + 1) =>
            /\ cont.wait \in {"frame", "delay", "none"}
            /\ (cont.wait = "none") => (cont.status = "idle")
            /\ (cont.scans > 0) => (call.status # "pending")]_vars

C39_Witness ==
    /\ cont.status = "pending"
    /\ cont.strategy = "frame-callback"
    /\ cont.mode = "all"
    /\ cont.scans = 2
    /\ cont.wait = "scan"
    /\ call.status = "pending"
    /\ Len(inv) = 2
    /\ inv[1].st = "empty"
    /\ inv[2].st = "running"

\* C31: whenever a built-in plugin finds its signal triggered at one of its
\* two checkpoints, it rejects with the signal's own reason, whatever that
\* reason is, and never with a wrapped 'detection failed' error.
C31_PluginRejectsWithSignalReason ==
    (plug.checkpoint # "none") =>
        /\ plug.status = "rejected"
        /\ plug.error = eff.reason
        /\ plug.error.message # "detection failed"

\* C32: once the signal of a frame-synchronised continuous scan has
\* triggered during the scan (the deadline elapsed, or the caller aborted a
\* signal that was live at the call), the call is eventually rejected with
\* an enriched error, whether or not the source presents another frame.
C32_FrameScanRejectsAfterAbort ==
    (/\ cont.strategy = "frame-callback"
     /\ cont.status = "pending"
     /\ eff.aborted
     /\ timer = "fired" \/ req.signal = "live")
        ~> (IF cont.status = "rejected"
            THEN cont.error.scanMethod = "frame-callback" ELSE FALSE)

\* C40: the registry changes only in a registerPlugin() call that returns;
\* scan, scanAny, scanContinuous and getSupportedFormats calls, their
\* settlements and their cancellation leave it as it is, and no step
\* takes a format out of it.
C40_RegistryChangedOnlyByRegistration ==
    [][/\ (plugins' # plugins) =>
            (/\ req'.op = "registerPlugin"
             /\ ~req'.threw
             /\ req'.arg \in Range(plugins'))
       /\ Range(GetSupportedFormats(plugins))
            \subseteq Range(GetSupportedFormats(plugins'))
       /\ Len(plugins') >= Len(plugins)]_vars

C40_Witness ==
    /\ req.op = "getSupportedFormats"
    /\ req.arg = <<"qr_code", "pdf417">>
    /\ Len(registered) = 3
    /\ Len(plugins) = 2
    /\ call.status = "rejected"
    /\ call.error = AbortReason
    /\ cont.status = "rejected"

\* The scans a CameraScanner has handed on that have not settled.
InFlight == {k \in 1..Len(cam.delegated) : cam.delegated[k].status = "pending"}

\* C37: on one CameraScanner at most one scan()/scanAny() is in flight, over
\* every interleaving of start, scan, scanAny and stop: while a delegated
\* scan is unsettled no further call reaches the OpticalScanner.
C37_OneScanInFlight == Cardinality(InFlight) <= 1

\* The locals of the first of two continuous scans.
FirstLocals == <<cont, call, inv, eff, userSig, timer>>

\* The count an enriched error reports.
Reported(c) ==
    IF c.strategy = "frame-callback"
    THEN c.error.frameCount ELSE c.error.attemptCount

====
